---------------------------- MODULE Spec2Model ----------------------------
(***************************************************************************)
(* A model of the multi-tenant school fee application: the tables and the  *)
(* row-level-security policies of supabase/migrations, the signup trigger, *)
(* the subscription handlers of the admin dashboards, the billing page,    *)
(* the mobile-money callback, the subscription hook, the form of the       *)
(* students page, the receipt numbers of the payments, the notifications   *)
(* and the deletion of a school.                                           *)
(*                                                                         *)
(* Time is counted in whole days, from day 1.  SQL NULL is the value NULL  *)
(* (0 for an id, a day or a number): a comparison with NULL is never true  *)
(* (SqlEq).                                                                *)
(* A request through the data API is one action: the policy filter, the    *)
(* triggers, the constraints and the cascades of the statement are part of *)
(* it, and the response the caller receives is left in resp.               *)
(***************************************************************************)
EXTENDS Integers, FiniteSets, Sequences, TLC

VARIABLES
    now,             \* the clock, in days
    auth_users,      \* auth.users: the ids that signed up
    schools,         \* public.schools
    admin_profiles,  \* public.admin_profiles
    user_roles,      \* public.user_roles
    students,        \* public.students
    fee_structures,  \* public.fee_structures
    payments,        \* public.payments
    billing,         \* public.billing
    notifications,   \* public.notifications
    receipt_sequence,\* the sequence receipt_sequence: its last value
    subscription,    \* useSubscription's state, per signed-in user
    students_page,   \* pages/Students.tsx: the students list of each open page
    location,        \* react-router: the path each browser shows, and whether
                     \* the effect of useSubscription is due for it
    auth_context,    \* contexts/AuthContext.tsx: session, needsOnboarding and the
                     \* deferred SIGNED_IN handler of each browser
    resp             \* the last response of the data API: {by, error, data}

vars ==
    <<now, auth_users, schools, admin_profiles, user_roles, students,
      fee_structures, payments, billing, notifications, receipt_sequence,
      subscription, students_page, location, auth_context, resp>>

-----------------------------------------------------------------------------
(* Bounds of the model.                                                    *)

\* id pool of each tenant table (students, fee_structures, payments); the
\* three tables hold MaxRows + 2 rows at most between them
MaxRows == 1

\* id pool of public.billing
MaxBilling == 2

\* the clock stops here
MaxNow == 2

-----------------------------------------------------------------------------
(* Values.                                                                 *)

NULL == 0

\* auth.uid() of the callers: two regular admins and the super admin
Principals == {"a", "b", "sa"}

\* useLocation(): the path shown, with the flag that the effect depending on
\* it has yet to run
Location(pathname, due) == [pathname |-> pathname, due |-> due]

\* the state of AuthProvider with no SIGNED_IN handler in flight: pc is the
\* await the deferred handler has reached, with what its queries returned
AuthState(session) ==
    [session |-> session, needsOnboarding |-> FALSE, pc |-> "none",
     super_admin |-> FALSE, school_id |-> NULL, needsOnboard |-> FALSE]

\* the open students pages: each signed-in user may hold the page in two
\* browser tabs
Tabs == Principals \X {1, 2}

\* the school the signup trigger creates for a user (gen_random_uuid is
\* fresh; the model names the school after its first owner)
SchoolOf(uid) ==
    CASE uid = "a" -> 1
      [] uid = "sa" -> 2
      [] OTHER -> 3

RowIds == 1..MaxRows

BillingIds == 1..MaxBilling

\* SQL equality: NULL = x is NULL, which a policy or a filter treats as false
SqlEq(x, y) == x # NULL /\ y # NULL /\ x = y

\* the responses of the data API: the rows of a select ...
Ok(uid, rows) == [by |-> uid, op |-> "select", error |-> "none", data |-> rows]

\* ... and of a write that no policy, constraint or trigger refused (it may
\* have reached no row at all: the response is the same)
Done(uid) == [by |-> uid, op |-> "write", error |-> "none", data |-> {}]

\* 42501: new row violates row-level security policy
\* 23514: check constraint, 23503: foreign key, 23505: unique, 23502: not null
Err(uid, code) == [by |-> uid, op |-> "write", error |-> code, data |-> {}]

NoResp == [by |-> "none", op |-> "none", error |-> "none", data |-> {}]

\* the outcome of one statement: its error and the table after it
Stmt(code, table) == [error |-> code, table |-> table]

\* the response of a handler that ran one statement
Reply(uid, stmt) ==
    IF stmt.error = "none" THEN Done(uid) ELSE Err(uid, stmt.error)

\* useState<SubscriptionStatus | null>(null)
NoSubscription == [status |-> "null"]

-----------------------------------------------------------------------------
(* Identity and tenant resolver.                                           *)

has_role(_user_id, _role) ==
    <<_user_id, _role>> \in user_roles

get_user_school_id(_user_id) ==
    IF \E p \in admin_profiles : p.id = _user_id
    THEN (CHOOSE p \in admin_profiles : p.id = _user_id).school_id
    ELSE NULL


-----------------------------------------------------------------------------
(* Row-level-security policies of students, fee_structures and payments.   *)
(* A policy FOR UPDATE that gives only USING applies the same expression   *)
(* to the new row (WITH CHECK).                                            *)

\* the tenant policy OR-ed with a permissive USING (true), as the first
\* migration had it
students_select_policy_open(uid, row) ==
    SqlEq(row.school_id, get_user_school_id(uid)) \/ TRUE

students_select_policy(uid, row) ==
    SqlEq(row.school_id, get_user_school_id(uid))

students_insert_policy(uid, row) ==
    SqlEq(row.school_id, get_user_school_id(uid))

students_update_policy(uid, row) ==
    SqlEq(row.school_id, get_user_school_id(uid))

students_delete_policy(uid, row) ==
    SqlEq(row.school_id, get_user_school_id(uid))

fee_structures_select_policy(uid, row) ==
    SqlEq(row.school_id, get_user_school_id(uid))

fee_structures_insert_policy(uid, row) ==
    SqlEq(row.school_id, get_user_school_id(uid))

fee_structures_update_policy(uid, row) ==
    SqlEq(row.school_id, get_user_school_id(uid))

fee_structures_delete_policy(uid, row) ==
    SqlEq(row.school_id, get_user_school_id(uid))

payments_select_policy(uid, row) ==
    SqlEq(row.school_id, get_user_school_id(uid))

payments_insert_policy(uid, row) ==
    SqlEq(row.school_id, get_user_school_id(uid))

payments_update_policy(uid, row) ==
    SqlEq(row.school_id, get_user_school_id(uid))

payments_delete_policy(uid, row) ==
    SqlEq(row.school_id, get_user_school_id(uid))

-----------------------------------------------------------------------------
(* Tables: helpers.                                                        *)

Ids(table) == {r.id : r \in table}

\* gen_random_uuid(): an id no row of the table carries (NULL once the pool of
\* the model is used up: such a row is never stored)
FreshId(table, pool) ==
    IF pool \subseteq Ids(table)
    THEN NULL
    ELSE CHOOSE i \in pool \ Ids(table) : \A j \in pool \ Ids(table) : i <= j

\* the id of a new row of students, fee_structures or payments
TenantRowId(table) ==
    IF Cardinality(students) + Cardinality(fee_structures) + Cardinality(payments)
          >= MaxRows + 2
    THEN NULL
    ELSE FreshId(table, RowIds)

RowById(table, id) == CHOOSE r \in table : r.id = id

\* update_student_fee(), BEFORE INSERT OR UPDATE OF class_id ON students:
\* total_fee is copied from the class, whatever school the class belongs to
update_student_fee(row) ==
    IF row.class_id # NULL
    THEN IF \E f \in fee_structures : f.id = row.class_id
         THEN [row EXCEPT !.total_fee = RowById(fee_structures, row.class_id).fee_amount]
         ELSE [row EXCEPT !.total_fee = NULL]
    ELSE row

\* students.class_id REFERENCES fee_structures(id); the check bypasses the policies
students_class_fk(row) ==
    row.class_id = NULL \/ row.class_id \in Ids(fee_structures)

\* payments.student_id NOT NULL REFERENCES students(id)
payments_student_fk(row) ==
    row.student_id \in Ids(students)

\* school_id REFERENCES schools(id)
school_fk(row) ==
    row.school_id = NULL \/ \E s \in schools : s.id = row.school_id

\* fee_structures deleted: students.class_id ON DELETE SET NULL
class_set_null(st, gone) ==
    {IF r.class_id \in gone THEN [r EXCEPT !.class_id = NULL] ELSE r : r \in st}

\* students deleted: payments.student_id ON DELETE CASCADE
payments_cascade(pay, gone) ==
    {r \in pay : r.student_id \notin gone}

UNCHANGED_outside_tenant_tables ==
    UNCHANGED <<notifications, receipt_sequence, now, auth_users, schools,
                admin_profiles, user_roles, billing, subscription, students_page, location, auth_context>>

-----------------------------------------------------------------------------
(* Data API on students.                                                   *)

\* supabase.from("students").select("*")
SelectStudents(uid) ==
    /\ resp' = Ok(uid, {r \in students : students_select_policy(uid, r)})
    /\ UNCHANGED <<students, fee_structures, payments>>
    /\ UNCHANGED_outside_tenant_tables

\* admission_no TEXT NOT NULL UNIQUE, the key of the first migration: one
\* admission number in the whole table
students_admission_no_key(others, row) ==
    \A r \in others : r.admission_no # row.admission_no

\* CREATE UNIQUE INDEX students_admission_no_school_unique ON students
\* (school_id, admission_no): no other row has the row's pair; a NULL school_id
\* never collides
students_admission_no_school_unique(others, row) ==
    \A r \in others :
        ~(SqlEq(r.school_id, row.school_id) /\ r.admission_no = row.admission_no)

\* INSERT INTO students (id, school_id, class_id, admission_no, ...): the
\* BEFORE trigger, the WITH CHECK of the policy, the unique index, then the
\* foreign keys
insert_into_students(uid, id, sid, cid, admission_no) ==
    LET row == update_student_fee(
                   [id |-> id, school_id |-> sid, class_id |-> cid,
                    total_fee |-> 0, admission_no |-> admission_no])
    IN  IF ~students_insert_policy(uid, row)
        THEN Stmt("42501", students)
        ELSE IF ~students_admission_no_school_unique(students, row)
        THEN Stmt("23505", students)
        ELSE IF ~(students_class_fk(row) /\ school_fk(row))
        THEN Stmt("23503", students)
        ELSE Stmt("none", students \cup {row})

\* supabase.from("students").insert({id, school_id, class_id, admission_no})
insert_students(uid, id, sid, cid, admission_no) ==
    /\ LET ins == insert_into_students(uid, id, sid, cid, admission_no)
       IN  /\ ins.error = "none" => id # NULL
           /\ students' = ins.table
           /\ resp' = Reply(uid, ins)
    /\ UNCHANGED <<fee_structures, payments>>
    /\ UNCHANGED_outside_tenant_tables

\* supabase.from("students").insert({school_id, class_id, admission_no, ...})
\* with an admission number no other student has
InsertStudent(uid, sid, cid) ==
    insert_students(uid, TenantRowId(students), sid, cid, TenantRowId(students))

\* the rows an UPDATE or a DELETE with .eq("id", id) reaches: the caller must
\* see the row (SELECT policy, for the WHERE clause) and pass the command's USING
StudentsUpdateTargets(uid, id) ==
    {r \in students :
        r.id = id /\ students_select_policy(uid, r) /\ students_update_policy(uid, r)}

StudentsDeleteTargets(uid, id) ==
    {r \in students :
        r.id = id /\ students_select_policy(uid, r) /\ students_delete_policy(uid, r)}

\* supabase.from("students").update({class_id}).eq("id", id)
UpdateStudentClass(uid, id, cid) ==
    /\ LET old == StudentsUpdateTargets(uid, id)
           new == {update_student_fee([r EXCEPT !.class_id = cid]) : r \in old}
       IN  IF \E r \in new : ~students_update_policy(uid, r)
           THEN resp' = Err(uid, "42501") /\ UNCHANGED students
           ELSE IF \E r \in new : ~students_class_fk(r)
           THEN resp' = Err(uid, "23503") /\ UNCHANGED students
           ELSE resp' = Done(uid) /\ students' = (students \ old) \cup new
    /\ UNCHANGED <<fee_structures, payments>>
    /\ UNCHANGED_outside_tenant_tables

\* supabase.from("students").update({school_id}).eq("id", id)
UpdateStudentSchool(uid, id, sid) ==
    /\ LET old == StudentsUpdateTargets(uid, id)
           new == {[r EXCEPT !.school_id = sid] : r \in old}
       IN  IF \E r \in new : ~students_update_policy(uid, r)
           THEN resp' = Err(uid, "42501") /\ UNCHANGED students
           ELSE IF \E r \in new : ~students_admission_no_school_unique(students \ old, r)
           THEN resp' = Err(uid, "23505") /\ UNCHANGED students
           ELSE IF \E r \in new : ~school_fk(r)
           THEN resp' = Err(uid, "23503") /\ UNCHANGED students
           ELSE resp' = Done(uid) /\ students' = (students \ old) \cup new
    /\ UNCHANGED <<fee_structures, payments>>
    /\ UNCHANGED_outside_tenant_tables

\* supabase.from("students").delete().eq("id", id)
DeleteStudent(uid, id) ==
    /\ LET old == StudentsDeleteTargets(uid, id)
       IN  /\ students' = students \ old
           /\ payments' = payments_cascade(payments, Ids(old))
    /\ resp' = Done(uid)
    /\ UNCHANGED fee_structures
    /\ UNCHANGED_outside_tenant_tables

-----------------------------------------------------------------------------
(* Data API on fee_structures.                                             *)

\* supabase.from("fee_structures").select("*")
SelectFeeStructures(uid) ==
    /\ resp' = Ok(uid, {r \in fee_structures : fee_structures_select_policy(uid, r)})
    /\ UNCHANGED <<students, fee_structures, payments>>
    /\ UNCHANGED_outside_tenant_tables

\* supabase.from("fee_structures").insert({school_id, fee_amount, ...})
InsertFeeStructure(uid, sid, amount) ==
    /\ LET row == [id |-> TenantRowId(fee_structures), school_id |-> sid,
                   fee_amount |-> amount]
       IN  IF ~fee_structures_insert_policy(uid, row)
           THEN resp' = Err(uid, "42501") /\ UNCHANGED fee_structures
           ELSE IF ~school_fk(row)
           THEN resp' = Err(uid, "23503") /\ UNCHANGED fee_structures
           ELSE row.id # NULL /\ resp' = Done(uid) /\ fee_structures' = fee_structures \cup {row}
    /\ UNCHANGED <<students, payments>>
    /\ UNCHANGED_outside_tenant_tables

FeeStructuresUpdateTargets(uid, id) ==
    {r \in fee_structures :
        r.id = id /\ fee_structures_select_policy(uid, r) /\ fee_structures_update_policy(uid, r)}

FeeStructuresDeleteTargets(uid, id) ==
    {r \in fee_structures :
        r.id = id /\ fee_structures_select_policy(uid, r) /\ fee_structures_delete_policy(uid, r)}

\* supabase.from("fee_structures").update({fee_amount}).eq("id", id)
UpdateFeeAmount(uid, id, amount) ==
    /\ LET old == FeeStructuresUpdateTargets(uid, id)
           new == {[r EXCEPT !.fee_amount = amount] : r \in old}
       IN  IF \E r \in new : ~fee_structures_update_policy(uid, r)
           THEN resp' = Err(uid, "42501") /\ UNCHANGED fee_structures
           ELSE resp' = Done(uid) /\ fee_structures' = (fee_structures \ old) \cup new
    /\ UNCHANGED <<students, payments>>
    /\ UNCHANGED_outside_tenant_tables

\* supabase.from("fee_structures").update({school_id}).eq("id", id)
UpdateFeeSchool(uid, id, sid) ==
    /\ LET old == FeeStructuresUpdateTargets(uid, id)
           new == {[r EXCEPT !.school_id = sid] : r \in old}
       IN  IF \E r \in new : ~fee_structures_update_policy(uid, r)
           THEN resp' = Err(uid, "42501") /\ UNCHANGED fee_structures
           ELSE IF \E r \in new : ~school_fk(r)
           THEN resp' = Err(uid, "23503") /\ UNCHANGED fee_structures
           ELSE resp' = Done(uid) /\ fee_structures' = (fee_structures \ old) \cup new
    /\ UNCHANGED <<students, payments>>
    /\ UNCHANGED_outside_tenant_tables

\* supabase.from("fee_structures").delete().eq("id", id)
DeleteFeeStructure(uid, id) ==
    /\ LET old == FeeStructuresDeleteTargets(uid, id)
       IN  /\ fee_structures' = fee_structures \ old
           /\ students' = class_set_null(students, Ids(old))
    /\ resp' = Done(uid)
    /\ UNCHANGED payments
    /\ UNCHANGED_outside_tenant_tables

-----------------------------------------------------------------------------
(* Data API on payments.                                                   *)

\* supabase.from("payments").select("*")
SelectPayments(uid) ==
    /\ resp' = Ok(uid, {r \in payments : payments_select_policy(uid, r)})
    /\ UNCHANGED <<students, fee_structures, payments>>
    /\ UNCHANGED_outside_tenant_tables

\* LPAD(NEXTVAL('receipt_sequence')::TEXT, 6, '0'): six digits after the year
SeqWidth == 1000000

\* the days of a year in the calendar of the model
YearDays == 2

\* EXTRACT(YEAR FROM NOW())
YearOf(day) == day \div YearDays

\* 'RCP-' || year || '-' || the six digits, as one number: the year, then the
\* digits
ReceiptNumber(year, seq) == year * SeqWidth + seq

\* generate_receipt_number(), BEFORE INSERT ON payments: a row without a
\* receipt number takes the next value of receipt_sequence
generate_receipt_number(row) ==
    IF row.receipt_number = NULL
    THEN [row EXCEPT !.receipt_number = ReceiptNumber(YearOf(now), receipt_sequence + 1)]
    ELSE row

\* payments.receipt_number TEXT UNIQUE
payments_receipt_number_key(row) ==
    \A r \in payments : r.receipt_number # row.receipt_number

\* INSERT INTO payments (id, school_id, student_id, amount, receipt_number):
\* the BEFORE trigger, the WITH CHECK of the policy, the unique key, then the
\* foreign keys; NEXTVAL is never rolled back, so a refused insert keeps the
\* value it took
insert_payments(uid, id, sid, student, amount, receipt_number) ==
    /\ LET row == generate_receipt_number(
                     [id |-> id, school_id |-> sid, student_id |-> student,
                      amount |-> amount, receipt_number |-> receipt_number])
       IN  IF ~payments_insert_policy(uid, row)
           THEN resp' = Err(uid, "42501") /\ UNCHANGED payments
           ELSE IF ~payments_receipt_number_key(row)
           THEN resp' = Err(uid, "23505") /\ UNCHANGED payments
           ELSE IF ~(payments_student_fk(row) /\ school_fk(row))
           THEN resp' = Err(uid, "23503") /\ UNCHANGED payments
           ELSE row.id # NULL /\ resp' = Done(uid) /\ payments' = payments \cup {row}
    /\ receipt_sequence' =
           IF receipt_number = NULL THEN receipt_sequence + 1 ELSE receipt_sequence
    /\ UNCHANGED <<students, fee_structures>>
    /\ UNCHANGED <<notifications, now, auth_users, schools, admin_profiles, user_roles,
                   billing, subscription, students_page, location, auth_context>>

\* supabase.from("payments").insert({school_id, student_id, amount,
\* receipt_number, ...}) with a receipt number of the caller's, one no other
\* payment has
InsertPayment(uid, sid, student, amount) ==
    insert_payments(uid, TenantRowId(payments), sid, student, amount,
                    TenantRowId(payments) + 1)

PaymentsUpdateTargets(uid, id) ==
    {r \in payments :
        r.id = id /\ payments_select_policy(uid, r) /\ payments_update_policy(uid, r)}

PaymentsDeleteTargets(uid, id) ==
    {r \in payments :
        r.id = id /\ payments_select_policy(uid, r) /\ payments_delete_policy(uid, r)}

\* supabase.from("payments").update({amount}).eq("id", id)
UpdatePaymentAmount(uid, id, amount) ==
    /\ LET old == PaymentsUpdateTargets(uid, id)
           new == {[r EXCEPT !.amount = amount] : r \in old}
       IN  IF \E r \in new : ~payments_update_policy(uid, r)
           THEN resp' = Err(uid, "42501") /\ UNCHANGED payments
           ELSE resp' = Done(uid) /\ payments' = (payments \ old) \cup new
    /\ UNCHANGED <<students, fee_structures>>
    /\ UNCHANGED_outside_tenant_tables

\* supabase.from("payments").update({school_id}).eq("id", id)
UpdatePaymentSchool(uid, id, sid) ==
    /\ LET old == PaymentsUpdateTargets(uid, id)
           new == {[r EXCEPT !.school_id = sid] : r \in old}
       IN  IF \E r \in new : ~payments_update_policy(uid, r)
           THEN resp' = Err(uid, "42501") /\ UNCHANGED payments
           ELSE IF \E r \in new : ~school_fk(r)
           THEN resp' = Err(uid, "23503") /\ UNCHANGED payments
           ELSE resp' = Done(uid) /\ payments' = (payments \ old) \cup new
    /\ UNCHANGED <<students, fee_structures>>
    /\ UNCHANGED_outside_tenant_tables

\* supabase.from("payments").delete().eq("id", id)
DeletePayment(uid, id) ==
    /\ payments' = payments \ PaymentsDeleteTargets(uid, id)
    /\ resp' = Done(uid)
    /\ UNCHANGED <<students, fee_structures>>
    /\ UNCHANGED_outside_tenant_tables

-----------------------------------------------------------------------------
(* Data API on admin_profiles.                                             *)

\* "Admins can update own profile": USING (auth.uid() = id), every column
admin_profiles_update_policy(uid, row) ==
    row.id = uid

\* supabase.from("admin_profiles").update({school_id}).eq("id", uid);
\* admin_profiles.school_id REFERENCES schools(id)
UpdateProfileSchool(uid, sid) ==
    /\ LET old == {p \in admin_profiles : admin_profiles_update_policy(uid, p)}
           new == {[p EXCEPT !.school_id = sid] : p \in old}
       IN  IF \E p \in new : ~admin_profiles_update_policy(uid, p)
           THEN resp' = Err(uid, "42501") /\ UNCHANGED admin_profiles
           ELSE IF \E p \in new : ~school_fk(p)
           THEN resp' = Err(uid, "23503") /\ UNCHANGED admin_profiles
           ELSE resp' = Done(uid) /\ admin_profiles' = (admin_profiles \ old) \cup new
    /\ UNCHANGED <<notifications, receipt_sequence, now, auth_users, schools,
                   user_roles, students, fee_structures,
                   payments, billing, subscription, students_page, location, auth_context>>

-----------------------------------------------------------------------------
(* schools and billing: policies, constraints, statements.                 *)

PlanSizes == {"small", "medium", "large"}

\* "Admins can view own school or super_admin all"
schools_select_policy(uid, row) ==
    SqlEq(row.id, get_user_school_id(uid)) \/ has_role(uid, "super_admin")

\* "Admins can update own school or super_admin all": USING only, so the
\* same expression checks the new row; no column is excluded
schools_update_policy(uid, row) ==
    SqlEq(row.id, get_user_school_id(uid)) \/ has_role(uid, "super_admin")

\* CHECK (subscription_status IN ...), CHECK (plan_type IN ...)
schools_check(row) ==
    /\ row.subscription_status \in {"trial", "active", "expired"}
    /\ row.plan_type \in PlanSizes

\* "Admins can view own school billing or super_admin all"
billing_select_policy(uid, row) ==
    SqlEq(row.school_id, get_user_school_id(uid)) \/ has_role(uid, "super_admin")

\* "Admins can insert own school billing": the school only, no column else
billing_insert_policy(uid, row) ==
    SqlEq(row.school_id, get_user_school_id(uid))

\* "Super admins can update billing"
billing_update_policy(uid, row) ==
    has_role(uid, "super_admin")

\* billing: plan_type NOT NULL CHECK (plan_type IN ('monthly', 'yearly')),
\* status CHECK (status IN ('pending', 'approved', 'rejected'))
billing_check(row) ==
    /\ row.plan_type \in {"monthly", "yearly"}
    /\ row.status \in {"pending", "approved", "rejected"}

\* billing.school_id NOT NULL REFERENCES schools(id)
billing_school_fk(row) ==
    \E s \in schools : s.id = row.school_id

\* a row of billing as an insert builds it: status DEFAULT 'pending'
NewBilling(sid, plan, method, txn, status, expiry) ==
    [id |-> FreshId(billing, BillingIds), school_id |-> sid, plan_type |-> plan,
     payment_method |-> method, transaction_id |-> txn, status |-> status,
     expiry_date |-> expiry]

\* UPDATE schools SET ... WHERE id = id, as the caller uid
update_schools(uid, id, set) ==
    LET old == {r \in schools : r.id = id /\ schools_select_policy(uid, r)
                                          /\ schools_update_policy(uid, r)}
        new == {set[r] : r \in old}
    IN  IF \E r \in new : ~schools_update_policy(uid, r)
        THEN Stmt("42501", schools)
        ELSE IF \E r \in new : ~schools_check(r)
        THEN Stmt("23514", schools)
        ELSE Stmt("none", (schools \ old) \cup new)

\* UPDATE billing SET status = ... WHERE id = id, as the caller uid
update_billing(uid, id, status) ==
    LET old == {r \in billing : r.id = id /\ billing_select_policy(uid, r)
                                          /\ billing_update_policy(uid, r)}
        new == {[r EXCEPT !.status = status] : r \in old}
    IN  IF \E r \in new : ~billing_update_policy(uid, r)
        THEN Stmt("42501", billing)
        ELSE IF \E r \in new : ~billing_check(r)
        THEN Stmt("23514", billing)
        ELSE Stmt("none", (billing \ old) \cup new)

\* INSERT INTO billing, as the caller uid
insert_billing(uid, row) ==
    IF ~billing_insert_policy(uid, row)
    THEN Stmt("42501", billing)
    ELSE IF ~billing_check(row)
    THEN Stmt("23514", billing)
    ELSE IF ~billing_school_fk(row)
    THEN Stmt("23503", billing)
    ELSE Stmt("none", billing \cup {row})

UNCHANGED_outside_schools ==
    UNCHANGED <<notifications, receipt_sequence, now, auth_users,
                admin_profiles, user_roles, students,
                fee_structures, payments, billing, subscription, students_page, location, auth_context>>

UNCHANGED_outside_billing ==
    UNCHANGED <<notifications, receipt_sequence, now, auth_users, schools,
                admin_profiles, user_roles, students,
                fee_structures, payments, subscription, students_page, location, auth_context>>

-----------------------------------------------------------------------------
(* Rows of the signup trigger.                                             *)

\* the Date helpers; a day is the unit of the clock
TrialDays == 7

\* INSERT INTO schools: the column defaults of the schools table
NewSchool(uid, at) ==
    [id |-> SchoolOf(uid),
     trial_start |-> at,
     trial_end |-> at + TrialDays,
     subscription_status |-> "trial",
     plan_type |-> "small",
     max_students |-> 200,
     next_payment_date |-> NULL,
     last_payment_date |-> NULL]

NewProfile(uid, sid) == [id |-> uid, school_id |-> sid]

-----------------------------------------------------------------------------
(* The tenant tables under their policies: two schools that signed up at   *)
(* day 1 (the admin "a" owns school 1, the super admin "sa" school 2);    *)
(* "b" has no profile, so no tenant.                                       *)

SignedUp == {"a", "sa"}

InitTenant ==
    /\ now = 1
    /\ auth_users = SignedUp
    /\ schools = {NewSchool(u, 1) : u \in SignedUp}
    /\ admin_profiles = {NewProfile(u, SchoolOf(u)) : u \in SignedUp}
    /\ user_roles = {<<u, "admin">> : u \in SignedUp} \cup {<<"sa", "super_admin">>}
    /\ students = {}
    /\ fee_structures = {}
    /\ payments = {}
    /\ billing = {}
    /\ notifications = {}
    /\ receipt_sequence = 0
    /\ subscription = [u \in Principals |-> NoSubscription]
    /\ students_page = [t \in Tabs |-> {}]
    /\ location = [u \in Principals |->
                      Location(IF u \in SignedUp THEN "/dashboard" ELSE "/auth", FALSE)]
    /\ auth_context = [u \in Principals |-> AuthState(u \in SignedUp)]
    /\ resp = NoResp

\* what the callers of this specification send: the schools that exist (or
\* no school), one fee and one amount
TenantSchools == {SchoolOf(u) : u \in SignedUp}

TenantFees == {500}

TenantAmounts == {100}

NextTenant ==
    \E uid \in Principals :
        \/ SelectStudents(uid)
        \/ SelectFeeStructures(uid)
        \/ SelectPayments(uid)
        \/ \E sid \in TenantSchools \cup {NULL}, cid \in RowIds \cup {NULL} :
              InsertStudent(uid, sid, cid)
        \/ \E id \in RowIds, cid \in RowIds \cup {NULL} : UpdateStudentClass(uid, id, cid)
        \/ \E id \in RowIds, sid \in TenantSchools : UpdateStudentSchool(uid, id, sid)
        \/ \E id \in RowIds : DeleteStudent(uid, id)
        \/ \E sid \in TenantSchools \cup {NULL}, amount \in TenantFees :
              InsertFeeStructure(uid, sid, amount)
        \/ \E id \in RowIds, amount \in TenantFees : UpdateFeeAmount(uid, id, amount)
        \/ \E id \in RowIds, sid \in TenantSchools : UpdateFeeSchool(uid, id, sid)
        \/ \E id \in RowIds : DeleteFeeStructure(uid, id)
        \/ \E sid \in TenantSchools \cup {NULL}, st \in RowIds, amount \in TenantAmounts :
              InsertPayment(uid, sid, st, amount)
        \/ \E id \in RowIds, amount \in TenantAmounts : UpdatePaymentAmount(uid, id, amount)
        \/ \E id \in RowIds, sid \in TenantSchools : UpdatePaymentSchool(uid, id, sid)
        \/ \E id \in RowIds : DeletePayment(uid, id)
        \/ \E sid \in TenantSchools : UpdateProfileSchool(uid, sid)

SpecTenant == InitTenant /\ [][NextTenant]_vars


-----------------------------------------------------------------------------
(* Claims on the tenant tables (SpecTenant).                               *)

TenantTables == students \cup fee_structures \cup payments

\* the rows of a table that belong to school sid
RowsOf(table, sid) == {r \in table : r.school_id = sid}

\* C1: the rows a select on students, fee_structures or payments returns to a
\* caller that is not super_admin all carry the caller's own school_id; a
\* caller of another school (or of none) receives no row of school A.
C1_TenantIsolationOnRead ==
    (resp.op = "select" /\ ~has_role(resp.by, "super_admin")) =>
        \A r \in resp.data : SqlEq(r.school_id, get_user_school_id(resp.by))

\* every table holds rows, all of them of another school, and the select of
\* the admin "a" has just returned nothing
C1_Witness ==
    /\ resp = Ok("a", {})
    /\ students # {} /\ fee_structures # {} /\ payments # {}
    /\ \A r \in TenantTables : r.school_id # get_user_school_id("a")

\* a write of uid aimed at a row of another school, or inserting a row tagged
\* with another school
ForeignRow(table, id, uid) ==
    \E r \in table : r.id = id /\ r.school_id # get_user_school_id(uid)

CrossTenantWrite(uid) ==
    \/ \E sid \in TenantSchools \ {get_user_school_id(uid)}, cid \in RowIds \cup {NULL} :
          InsertStudent(uid, sid, cid)
    \/ \E id \in RowIds, cid \in RowIds \cup {NULL} :
          ForeignRow(students, id, uid) /\ UpdateStudentClass(uid, id, cid)
    \/ \E id \in RowIds : ForeignRow(students, id, uid) /\ DeleteStudent(uid, id)
    \/ \E sid \in TenantSchools \ {get_user_school_id(uid)}, amount \in TenantFees :
          InsertFeeStructure(uid, sid, amount)
    \/ \E id \in RowIds, amount \in TenantFees :
          ForeignRow(fee_structures, id, uid) /\ UpdateFeeAmount(uid, id, amount)
    \/ \E id \in RowIds : ForeignRow(fee_structures, id, uid) /\ DeleteFeeStructure(uid, id)
    \/ \E sid \in TenantSchools \ {get_user_school_id(uid)}, st \in RowIds,
          amount \in TenantAmounts : InsertPayment(uid, sid, st, amount)
    \/ \E id \in RowIds, amount \in TenantAmounts :
          ForeignRow(payments, id, uid) /\ UpdatePaymentAmount(uid, id, amount)
    \/ \E id \in RowIds : ForeignRow(payments, id, uid) /\ DeletePayment(uid, id)

\* C3: an insert, update or delete on students, fee_structures or payments by
\* a caller that is not super_admin, aimed at a row of another school (or
\* inserting a row tagged with another school), is answered with the error
\* Forbidden (42501) and leaves the three tables as they were.
C3_CrossTenantWriteForbidden ==
    [][\A uid \in Principals :
          (/\ ~has_role(uid, "super_admin")
           /\ get_user_school_id(uid) # NULL
           /\ CrossTenantWrite(uid)) =>
              /\ resp'.error = "42501"
              /\ UNCHANGED <<students, fee_structures, payments>>]_vars

\* C5: a select of a super_admin returns every row of the table, of every
\* school.
C5_SuperAdminReadsAll ==
    [][\A uid \in Principals :
          has_role(uid, "super_admin") =>
              /\ SelectStudents(uid) => resp'.data = students
              /\ SelectFeeStructures(uid) => resp'.data = fee_structures
              /\ SelectPayments(uid) => resp'.data = payments]_vars

\* C6: no write of a super_admin creates, changes or deletes a row of
\* students, fee_structures or payments of a school that is not its own.
C6_SuperAdminWritesNoTenantData ==
    [][(resp'.op = "write" /\ has_role(resp'.by, "super_admin")) =>
          \A sid \in TenantSchools \ {get_user_school_id(resp'.by)} :
              /\ RowsOf(students, sid)' = RowsOf(students, sid)
              /\ RowsOf(fee_structures, sid)' = RowsOf(fee_structures, sid)
              /\ RowsOf(payments, sid)' = RowsOf(payments, sid)]_vars

-----------------------------------------------------------------------------
(* The clock and the Date helpers.                                         *)

\* a day passes
Tick(last) ==
    /\ now < last
    /\ now' = now + 1
    /\ UNCHANGED <<notifications, receipt_sequence, auth_users, schools,
                   admin_profiles, user_roles, students,
                   fee_structures, payments, billing, subscription, students_page, location, auth_context, resp>>

\* date-fns addDays(date, n), Date.setDate(getDate() + n)
addDays(date, n) == date + n

-----------------------------------------------------------------------------
(* pages/AdminDashboard.tsx: the subscription handlers.  The page is       *)
(* routed for every signed-in user; the policies decide what a statement   *)
(* reaches.                                                                *)

\* const maxStudentsMap = { small: 200, medium: 500, large: 1000 }; ... || 200
maxStudentsMap(plan_type) ==
    CASE plan_type = "small" -> 200
      [] plan_type = "medium" -> 500
      [] plan_type = "large" -> 1000
      [] OTHER -> 200

\* planType.includes("yearly") ? 365 : 30
planDuration(planType) ==
    IF planType \in {"yearly", "small-yearly", "medium-yearly", "large-yearly"}
    THEN 365
    ELSE 30

\* activateSubscription(), with the form's plan_type and the expiry date the
\* form gives (duration_months from now, or the custom date)
activateSubscription(uid, school_id, plan_type, expiryDate) ==
    /\ LET upd == update_schools(uid, school_id,
                      [r \in schools |-> [r EXCEPT !.subscription_status = "active",
                                           !.plan_type = plan_type,
                                           !.max_students = maxStudentsMap(plan_type),
                                           !.next_payment_date = expiryDate,
                                           !.last_payment_date = now]])
       IN  schools' = upd.table /\ resp' = Reply(uid, upd)
    /\ UNCHANGED_outside_schools

\* a deactivation that also forgets the last payment
deactivateSubscription_forgetting(uid, school_id) ==
    /\ LET upd == update_schools(uid, school_id,
                      [r \in schools |-> [r EXCEPT !.subscription_status = "expired",
                                           !.next_payment_date = NULL,
                                           !.last_payment_date = NULL]])
       IN  schools' = upd.table /\ resp' = Reply(uid, upd)
    /\ UNCHANGED_outside_schools

\* deactivateSubscription(school)
deactivateSubscription(uid, school_id) ==
    /\ LET upd == update_schools(uid, school_id,
                      [r \in schools |-> [r EXCEPT !.subscription_status = "expired",
                                           !.next_payment_date = NULL]])
       IN  schools' = upd.table /\ resp' = Reply(uid, upd)
    /\ UNCHANGED_outside_schools

\* approveSubscription(requestId, schoolId, planType): two statements, the
\* second runs only if the first returned no error; nothing undoes the first
approveSubscription(uid, requestId, schoolId, planType) ==
    /\ LET bil == update_billing(uid, requestId, "approved")
           upd == update_schools(uid, schoolId,
                      [r \in schools |-> [r EXCEPT !.subscription_status = "active",
                                           !.plan_type = planType,
                                           !.max_students = maxStudentsMap(planType),
                                           !.next_payment_date =
                                               addDays(now, planDuration(planType)),
                                           !.last_payment_date = now]])
       IN  IF bil.error # "none"
           THEN resp' = Err(uid, bil.error) /\ UNCHANGED <<billing, schools>>
           ELSE /\ billing' = bil.table
                /\ schools' = upd.table
                /\ resp' = Reply(uid, upd)
    /\ UNCHANGED <<notifications, receipt_sequence, now, auth_users,
                   admin_profiles, user_roles, students,
                   fee_structures, payments, subscription, students_page, location, auth_context>>

\* a rejection that also ends the subscription of the school of the request
rejectSubscription_expiring(uid, requestId) ==
    /\ LET bil == update_billing(uid, requestId, "rejected")
           hit == {r.school_id : r \in bil.table \ billing}
       IN  /\ billing' = bil.table
           /\ schools' = {IF r.id \in hit
                          THEN [r EXCEPT !.subscription_status = "expired"]
                          ELSE r : r \in schools}
           /\ resp' = Reply(uid, bil)
    /\ UNCHANGED <<notifications, receipt_sequence, now, auth_users,
                   admin_profiles, user_roles, students,
                   fee_structures, payments, subscription, students_page, location, auth_context>>

\* rejectSubscription(requestId)
rejectSubscription(uid, requestId) ==
    /\ LET bil == update_billing(uid, requestId, "rejected")
       IN  billing' = bil.table /\ resp' = Reply(uid, bil)
    /\ UNCHANGED_outside_billing

\* updateSchoolPlan(schoolId, planType)
updateSchoolPlan(uid, schoolId, planType) ==
    /\ LET upd == update_schools(uid, schoolId,
                      [r \in schools |-> [r EXCEPT !.plan_type = planType,
                                           !.max_students = maxStudentsMap(planType)]])
       IN  schools' = upd.table /\ resp' = Reply(uid, upd)
    /\ UNCHANGED_outside_schools

-----------------------------------------------------------------------------
(* pages/SuperAdminDashboard.tsx: the manage dialog and the quick actions. *)

\* handleUpdateSchool(): plan, status, capacity and days are four fields of
\* the form, each set on its own
handleUpdateSchool(uid, school_id, planType, subscriptionStatus, maxStudents, subscriptionDays) ==
    /\ LET upd == update_schools(uid, school_id,
                      [r \in schools |-> [r EXCEPT
                          !.plan_type = planType,
                          !.subscription_status = subscriptionStatus,
                          !.max_students = maxStudents,
                          !.next_payment_date =
                              IF subscriptionStatus = "active"
                              THEN addDays(now, subscriptionDays)
                              ELSE NULL,
                          !.last_payment_date =
                              IF subscriptionStatus = "active"
                              THEN now
                              ELSE r.last_payment_date]])
       IN  schools' = upd.table /\ resp' = Reply(uid, upd)
    /\ UNCHANGED_outside_schools

\* handleActivateSchool(school): addMonths(new Date(), 1) is today plus the
\* days of the month
handleActivateSchool(uid, school_id, month) ==
    /\ LET upd == update_schools(uid, school_id,
                      [r \in schools |-> [r EXCEPT !.subscription_status = "active",
                                           !.next_payment_date = addDays(now, month),
                                           !.last_payment_date = now]])
       IN  schools' = upd.table /\ resp' = Reply(uid, upd)
    /\ UNCHANGED_outside_schools

\* handleDeactivateSchool(school)
handleDeactivateSchool(uid, school_id) ==
    /\ LET upd == update_schools(uid, school_id,
                      [r \in schools |-> [r EXCEPT !.subscription_status = "expired",
                                           !.next_payment_date = NULL]])
       IN  schools' = upd.table /\ resp' = Reply(uid, upd)
    /\ UNCHANGED_outside_schools

-----------------------------------------------------------------------------
(* hooks/useSubscription.ts.                                               *)

Max(x, y) == IF x >= y THEN x ELSE y

\* the object checkSubscription() hands to setSubscription for a school row
\* read at the day at: the status is the stored column
SubscriptionOf(school, at) ==
    LET daysRemaining == Max(0, school.trial_end - at)
        daysUntilExpiry ==
            IF school.subscription_status = "active" /\ school.next_payment_date # NULL
            THEN Max(0, school.next_payment_date - at)
            ELSE 0
    IN  [status |-> school.subscription_status,
         trialDaysRemaining |-> daysRemaining,
         maxStudents |-> school.max_students,
         planType |-> school.plan_type,
         schoolId |-> school.id,
         nextPaymentDate |-> school.next_payment_date,
         daysUntilExpiry |-> daysUntilExpiry,
         showExpiryWarning |-> (daysUntilExpiry <= 7 /\ daysUntilExpiry > 0)]

\* currentPath !== '/billing' && currentPath !== '/auth' &&
\* !currentPath.startsWith('/superadmin')
ExemptPaths == {"/billing", "/auth", "/superadmin"}

\* checkSubscription(): the caller's profile, then the school of the profile;
\* without either the state is left as it was; a school stored as 'expired'
\* sends every path but /billing, /auth and /superadmin* to /billing
checkSubscription(uid) ==
    /\ LET school_id == get_user_school_id(uid)
           found == {r \in schools : SqlEq(r.id, school_id) /\ schools_select_policy(uid, r)}
           school == CHOOSE r \in found : TRUE
       IN  IF found = {}
           THEN /\ UNCHANGED subscription
                /\ location' = [location EXCEPT ![uid].due = FALSE]
           ELSE /\ subscription' = [subscription EXCEPT ![uid] = SubscriptionOf(school, now)]
                /\ location' =
                       IF /\ school.subscription_status = "expired"
                          /\ location[uid].pathname \notin ExemptPaths
                       THEN [location EXCEPT ![uid] = Location("/billing", TRUE)]
                       ELSE [location EXCEPT ![uid].due = FALSE]
    /\ UNCHANGED <<notifications, receipt_sequence, now, auth_users, schools,
                   admin_profiles, user_roles, students,
                   fee_structures, payments, billing, students_page, auth_context, resp>>

-----------------------------------------------------------------------------
(* The billing page and the data API on billing.                           *)

\* supabase.from("billing").insert({school_id, plan_type, payment_method, status})
InsertBilling(uid, sid, plan, method, status) ==
    /\ LET row == NewBilling(sid, plan, method, NULL, status, NULL)
           ins == insert_billing(uid, row)
       IN  /\ ins.error = "none" => row.id # NULL
           /\ billing' = ins.table
           /\ resp' = Reply(uid, ins)
    /\ UNCHANGED_outside_billing

\* handleContactAndRequest(): `${selectedPlan.name.toLowerCase()}-${selectedPlan.type}`
PlanKey(name, type) ==
    CASE name = "small" /\ type = "monthly" -> "small-monthly"
      [] name = "small" /\ type = "yearly" -> "small-yearly"
      [] name = "medium" /\ type = "monthly" -> "medium-monthly"
      [] name = "medium" /\ type = "yearly" -> "medium-yearly"
      [] name = "large" /\ type = "monthly" -> "large-monthly"
      [] OTHER -> "large-yearly"

\* requestSubscription(planType, amount), called by handleContactAndRequest
requestSubscription(uid, planType) ==
    /\ subscription[uid] # NoSubscription
    /\ InsertBilling(uid, subscription[uid].schoolId, planType, "manual", "pending")

-----------------------------------------------------------------------------
(* The mpesa-callback function: it runs with the service role key, so no   *)
(* policy applies; it does not look at the outcome of its two statements   *)
(* and always answers success.                                             *)

CallbackDone == [by |-> "mpesa-callback", op |-> "write", error |-> "none", data |-> {}]

\* a callback that takes every result code for a payment
mpesa_callback_any_code(ResultCode, schoolId, transactionId, month) ==
    /\ LET expiryDate == addDays(now, month)
           row == NewBilling(schoolId, "monthly", "mpesa", transactionId,
                             "pending", expiryDate)
           stored == schoolId # NULL /\ billing_school_fk(row)
       IN  /\ stored => row.id # NULL
           /\ billing' = IF stored THEN billing \cup {row} ELSE billing
           /\ schools' =
                 {IF r.id = schoolId
                  THEN [r EXCEPT !.subscription_status = "active",
                                 !.next_payment_date = expiryDate,
                                 !.last_payment_date = now]
                  ELSE r : r \in schools}
    /\ resp' = CallbackDone
    /\ UNCHANGED <<notifications, receipt_sequence, now, auth_users,
                   admin_profiles, user_roles, students,
                   fee_structures, payments, subscription, students_page, location, auth_context>>

mpesa_callback(ResultCode, schoolId, transactionId, month) ==
    /\ IF ResultCode = 0
       THEN LET expiryDate == addDays(now, month)
                row == NewBilling(schoolId, "monthly", "mpesa", transactionId,
                                  "pending", expiryDate)
                stored == schoolId # NULL /\ billing_school_fk(row)
            IN  /\ stored => row.id # NULL
                /\ billing' = IF stored THEN billing \cup {row} ELSE billing
                /\ schools' =
                      {IF r.id = schoolId
                       THEN [r EXCEPT !.subscription_status = "active",
                                      !.next_payment_date = expiryDate,
                                      !.last_payment_date = now]
                       ELSE r : r \in schools}
       ELSE UNCHANGED <<billing, schools>>
    /\ resp' = CallbackDone
    /\ UNCHANGED <<notifications, receipt_sequence, now, auth_users,
                   admin_profiles, user_roles, students,
                   fee_structures, payments, subscription, students_page, location, auth_context>>

-----------------------------------------------------------------------------
(* Signup: INSERT INTO auth.users and the trigger on_auth_admin_user_created. *)

\* the tables the trigger writes
Db(s, p, r) == [schools |-> s, admin_profiles |-> p, user_roles |-> r]

\* handle_new_admin_user(): three inserts in a row; fail_at names the insert
\* that raises ("none": no insert raises), the inserts before it have run
handle_new_admin_user(db, uid, fail_at) ==
    LET s1 == IF fail_at = "schools"
              THEN db.schools
              ELSE db.schools \cup {NewSchool(uid, now)}
        p1 == IF fail_at \in {"schools", "admin_profiles"}
              THEN db.admin_profiles
              ELSE db.admin_profiles \cup {NewProfile(uid, SchoolOf(uid))}
        r1 == IF fail_at \in {"schools", "admin_profiles", "user_roles"}
              THEN db.user_roles
              ELSE db.user_roles \cup {<<uid, "admin">>}
    IN  Db(s1, p1, r1)

\* a statement that raises keeps what it wrote
statement_keep(before, after) == after

\* AFTER INSERT ON auth.users FOR EACH ROW: the trigger runs inside the
\* statement that inserts the user; when it raises, the statement is undone
statement_abort(before, after) == before

FailAt == {"none", "schools", "admin_profiles", "user_roles"}

\* supabase.auth.signUp(...)
SignUp(uid, fail_at) ==
    /\ uid \notin auth_users
    /\ LET before == Db(schools, admin_profiles, user_roles)
           after == handle_new_admin_user(before, uid, fail_at)
           final == IF fail_at = "none" THEN after ELSE statement_abort(before, after)
       IN  /\ auth_users' = IF fail_at = "none" THEN auth_users \cup {uid} ELSE auth_users
           /\ schools' = final.schools
           /\ admin_profiles' = final.admin_profiles
           /\ user_roles' = final.user_roles
           /\ resp' = IF fail_at = "none" THEN Done(uid) ELSE Err(uid, "500")
    /\ UNCHANGED <<notifications, receipt_sequence, now, students,
                   fee_structures, payments, billing, subscription, students_page, location, auth_context>>

-----------------------------------------------------------------------------
(* Signup from an empty database.                                          *)

InitSignup ==
    /\ now = 1
    /\ auth_users = {}
    /\ schools = {}
    /\ admin_profiles = {}
    /\ user_roles = {}
    /\ students = {}
    /\ fee_structures = {}
    /\ payments = {}
    /\ billing = {}
    /\ notifications = {}
    /\ receipt_sequence = 0
    /\ subscription = [u \in Principals |-> NoSubscription]
    /\ students_page = [t \in Tabs |-> {}]
    /\ location = [u \in Principals |-> Location("/auth", FALSE)]
    /\ auth_context = [u \in Principals |-> AuthState(FALSE)]
    /\ resp = NoResp

NextSignup ==
    \/ \E uid \in Principals, fail_at \in FailAt : SignUp(uid, fail_at)
    \/ \E uid \in Principals : checkSubscription(uid)
    \/ Tick(MaxNow)

SpecSignup == InitSignup /\ [][NextSignup]_vars

\* everything a signup creates for the user u is there
SignupComplete(u) ==
    /\ u \in auth_users
    /\ <<u, "admin">> \in user_roles
    /\ \E p \in admin_profiles :
          /\ p.id = u
          /\ \E s \in schools :
                /\ s.id = p.school_id
                /\ s.subscription_status = "trial"
                /\ s.trial_end = s.trial_start + TrialDays

\* nothing of it is there
SignupNone(u) ==
    /\ u \notin auth_users
    /\ \A r \in user_roles : r[1] # u
    /\ \A p \in admin_profiles : p.id # u
    /\ \A s \in schools : s.id # SchoolOf(u)

\* C7: for every user, the school in trial, the profile linked to it and the
\* 'admin' role are all there or none of them is; a signup whose trigger
\* raises at any of the three inserts leaves none of them.
C7_SignupAtomic ==
    \A u \in Principals : SignupComplete(u) \/ SignupNone(u)

\* the signup of "b" has just failed and left nothing, beside the complete
\* signup of "a"
C7_Witness ==
    /\ resp = Err("b", "500")
    /\ SignupNone("b")
    /\ SignupComplete("a")
    /\ schools # {}

-----------------------------------------------------------------------------
(* Subscriptions and billing: the two schools of InitTenant, each user     *)
(* with the subscription hook loaded at day 1.                             *)

InitBilling ==
    /\ now = 1
    /\ auth_users = SignedUp
    /\ schools = {NewSchool(u, 1) : u \in SignedUp}
    /\ admin_profiles = {NewProfile(u, SchoolOf(u)) : u \in SignedUp}
    /\ user_roles = {<<u, "admin">> : u \in SignedUp} \cup {<<"sa", "super_admin">>}
    /\ students = {}
    /\ fee_structures = {}
    /\ payments = {}
    /\ billing = {}
    /\ notifications = {}
    /\ receipt_sequence = 0
    /\ subscription = [u \in Principals |->
                          IF u \in SignedUp
                          THEN SubscriptionOf(NewSchool(u, 1), 1)
                          ELSE NoSubscription]
    /\ students_page = [t \in Tabs |-> {}]
    /\ location = [u \in Principals |->
                      Location(IF u \in SignedUp THEN "/dashboard" ELSE "/auth", FALSE)]
    /\ auth_context = [u \in Principals |-> AuthState(u \in SignedUp)]
    /\ resp = NoResp

\* what the callers of this specification send: the dashboards act on the
\* school of "a"
BillingSchools == {SchoolOf("a")}

\* the days one calendar month added to today amounts to, at the least and
\* at the most (Date.setMonth(getMonth() + 1), date-fns addMonths(date, 1))
BillingMonths == {28, 31}

BillingPeriods == {"monthly", "yearly"}

\* the requests the dashboard lists for uid: .eq("status", "pending")
PendingRequests(uid) ==
    {r \in billing : r.status = "pending" /\ billing_select_policy(uid, r)}

NextBilling ==
    \/ Tick(MaxNow)
    \/ \E ResultCode \in {0, 1}, sid \in BillingSchools \cup {NULL}, month \in BillingMonths :
          mpesa_callback(ResultCode, sid, 11, month)
    \/ \E uid \in SignedUp :
          \/ \E sid \in BillingSchools, plan \in PlanSizes, month \in BillingMonths :
                activateSubscription(uid, sid, plan, addDays(now, month))
          \/ \E sid \in BillingSchools : deactivateSubscription(uid, sid)
          \/ \E r \in PendingRequests(uid) :
                approveSubscription(uid, r.id, r.school_id, r.plan_type)
          \/ \E r \in PendingRequests(uid) : rejectSubscription(uid, r.id)
          \/ \E sid \in BillingSchools, plan \in PlanSizes : updateSchoolPlan(uid, sid, plan)
          \/ \E sid \in BillingSchools, plan \in {"large", "enterprise"},
                status \in {"active", "expired"} :
                handleUpdateSchool(uid, sid, plan, status, 200, 7)
          \/ \E sid \in BillingSchools, month \in BillingMonths :
                handleActivateSchool(uid, sid, month)
          \/ \E sid \in BillingSchools : handleDeactivateSchool(uid, sid)
          \/ \E name \in PlanSizes, type \in BillingPeriods :
                requestSubscription(uid, PlanKey(name, type))
          \/ \E sid \in TenantSchools, plan \in BillingPeriods,
                status \in {"pending", "approved"} :
                InsertBilling(uid, sid, plan, "manual", status)

SpecBilling == InitBilling /\ [][NextBilling]_vars

-----------------------------------------------------------------------------
(* Claims on subscriptions and billing (SpecBilling).                      *)

\* the step ends with the response to a write of a user that is no super_admin
RegularAdminWrite ==
    /\ resp'.op = "write"
    /\ resp'.by \in Principals
    /\ ~has_role(resp'.by, "super_admin")

\* the step ends with the response to a write of a super_admin
SuperAdminWrite ==
    /\ resp'.op = "write"
    /\ resp'.by \in Principals
    /\ has_role(resp'.by, "super_admin")

\* C2: no write of a regular admin makes a school active that was not, nor
\* changes the next_payment_date, plan_type or max_students of a school.
C2_ActivationNeedsApproval ==
    [][RegularAdminWrite =>
          \A s \in schools : \E t \in schools' :
              /\ t.id = s.id
              /\ t.subscription_status = "active" => s.subscription_status = "active"
              /\ t.next_payment_date = s.next_payment_date
              /\ t.plan_type = s.plan_type
              /\ t.max_students = s.max_students]_vars

\* C4: a write of a regular admin leaves every billing row as it was and adds
\* at most rows of its own school whose status is 'pending'.
C4_OnlySuperAdminSetsBillingStatus ==
    [][RegularAdminWrite =>
          \A b \in billing' :
              \/ b \in billing
              \/ /\ b.id \notin Ids(billing)
                 /\ b.school_id = get_user_school_id(resp'.by)
                 /\ b.status = "pending"]_vars

\* C9: when a super_admin approves a pending billing row, the row becomes
\* 'approved' and its school ends active, with a plan size and the capacity of
\* that size, next_payment_date = now + 30 (monthly) or now + 365 (yearly) and
\* last_payment_date = now.
C9_ActivationByApproval ==
    [][\A uid \in Principals, b \in billing :
          (/\ has_role(uid, "super_admin")
           /\ b.status = "pending"
           /\ approveSubscription(uid, b.id, b.school_id, b.plan_type)) =>
              /\ \E c \in billing' : c.id = b.id /\ c.status = "approved"
              /\ \E t \in schools' :
                    /\ t.id = b.school_id
                    /\ t.subscription_status = "active"
                    /\ t.plan_type \in PlanSizes
                    /\ t.max_students = maxStudentsMap(t.plan_type)
                    /\ t.next_payment_date =
                          now + (IF b.plan_type = "yearly" THEN 365 ELSE 30)
                    /\ t.last_payment_date = now]_vars

\* C10: every school row a write of a super_admin changes ends with a plan
\* size and with the capacity of that size (200, 500, 1000).
C10_PlanCapacityConsistent ==
    [][SuperAdminWrite =>
          \A t \in schools' \ schools :
              /\ t.plan_type \in PlanSizes
              /\ t.max_students = maxStudentsMap(t.plan_type)]_vars

-----------------------------------------------------------------------------
(* The subscription hook over time: the two schools of InitTenant, the     *)
(* clock running past the end of the trial and of a 7-day subscription.    *)

\* the clock of this specification stops here
ClockEnd == 10

NextClock ==
    \/ Tick(ClockEnd)
    \/ \E uid \in SignedUp :
          \/ checkSubscription(uid)
          \/ \E sid \in BillingSchools : handleUpdateSchool(uid, sid, "small", "active", 200, 7)
          \/ \E sid \in BillingSchools : handleDeactivateSchool(uid, sid)

SpecClock == InitTenant /\ [][NextClock]_vars

\* the status the clock gives a school row at the day at
StatusByClock(s, at) ==
    CASE s.subscription_status = "trial" ->
            IF at <= s.trial_end THEN "trial" ELSE "expired"
      [] s.subscription_status = "active" ->
            IF s.next_payment_date # NULL /\ at > s.next_payment_date
            THEN "expired"
            ELSE "active"
      [] OTHER -> "expired"

\* C8: the status checkSubscription reports is the one the clock gives: a
\* school stored as 'trial' reads 'expired' once now > trial_end, a school
\* stored as 'active' reads 'expired' once now > next_payment_date.
C8_LazyExpiry ==
    [][\A uid \in Principals, s \in schools :
          (checkSubscription(uid) /\ s.id = get_user_school_id(uid)) =>
              subscription'[uid].status = StatusByClock(s, now)]_vars

-----------------------------------------------------------------------------
(* The payment callback beside the requests and their review: the state of *)
(* InitBilling, callbacks for the school of "a".                           *)

\* MpesaReceiptNumber of the callbacks
CallbackTxns == {11, 12}

\* the days the month added by the callback amounts to
CallbackMonths == {30}

NextCallback ==
    \/ Tick(MaxNow)
    \/ \E ResultCode \in {0, 1}, sid \in BillingSchools, txn \in CallbackTxns,
          month \in CallbackMonths :
          mpesa_callback(ResultCode, sid, txn, month)
    \/ \E uid \in SignedUp :
          \/ \E r \in PendingRequests(uid) :
                approveSubscription(uid, r.id, r.school_id, r.plan_type)
          \/ \E r \in PendingRequests(uid) : rejectSubscription(uid, r.id)
          \/ \E sid \in BillingSchools : handleDeactivateSchool(uid, sid)
          \/ \E sid \in BillingSchools : InsertBilling(uid, sid, "monthly", "manual", "pending")

SpecCallback == InitBilling /\ [][NextCallback]_vars

\* C11: a success callback whose transaction id is already recorded in
\* billing changes neither billing nor schools.
C11_DuplicateCallbackIdempotent ==
    [][\A sid \in BillingSchools, txn \in CallbackTxns, month \in CallbackMonths :
          (/\ \E b \in billing : b.transaction_id = txn /\ b.school_id = sid
           /\ mpesa_callback(0, sid, txn, month)) =>
              UNCHANGED <<billing, schools>>]_vars

\* C12: a success callback for an existing school adds one billing row of
\* that school with status 'approved' and expiry_date = now + one month, and
\* leaves the school active with next_payment_date and last_payment_date set.
C12_CallbackActivates ==
    [][\A sid \in BillingSchools, txn \in CallbackTxns, month \in CallbackMonths :
          mpesa_callback(0, sid, txn, month) =>
              /\ \E b \in billing' \ billing :
                    /\ billing' = billing \cup {b}
                    /\ b.school_id = sid
                    /\ b.transaction_id = txn
                    /\ b.status = "approved"
                    /\ b.expiry_date = addDays(now, month)
              /\ \E t \in schools' :
                    /\ t.id = sid
                    /\ t.subscription_status = "active"
                    /\ t.next_payment_date = addDays(now, month)
                    /\ t.last_payment_date = now]_vars


\* C13: when a super_admin rejects a pending billing row, that row ends
\* 'rejected' with every other column as it was, every other billing row and
\* every school row is unchanged.
C13_RejectionIsNoOpOnTenant ==
    [][\A uid \in Principals, b \in billing :
          (/\ has_role(uid, "super_admin")
           /\ b.status = "pending"
           /\ rejectSubscription(uid, b.id)) =>
              /\ billing' = (billing \ {b}) \cup {[b EXCEPT !.status = "rejected"]}
              /\ UNCHANGED schools]_vars

\* a request was rejected beside another billing row, and the school of the
\* rejected request is active: the rejection did not touch it
C13_Witness ==
    /\ resp = Done("sa")
    /\ \E b \in billing :
          /\ b.status = "rejected"
          /\ \E c \in billing : c.id # b.id /\ c.status # "rejected"
          /\ \E t \in schools : t.id = b.school_id /\ t.subscription_status = "active"

\* C19: a callback whose result code is not 0 changes neither billing nor
\* schools, and is answered as received.
C19_FailedCallbackChangesNothing ==
    [][\A ResultCode \in {1}, sid \in BillingSchools, txn \in CallbackTxns,
          month \in CallbackMonths :
          mpesa_callback(ResultCode, sid, txn, month) =>
              /\ UNCHANGED <<billing, schools>>
              /\ resp' = CallbackDone]_vars

\* a callback was answered while billing holds no row: in this specification
\* a success callback always stores one, so the callback was a failed one
C19_Witness ==
    /\ resp = CallbackDone
    /\ billing = {}
    /\ notifications = {}
    /\ receipt_sequence = 0
    /\ \A t \in schools : t.subscription_status = "trial" /\ t.next_payment_date = NULL

-----------------------------------------------------------------------------
(* pages/Students.tsx: the form of the students page.                      *)

\* the ids and the admission numbers of the students of the specifications
\* below
MaxRoster == 2

RosterIds == 1..MaxRoster

RosterAdmissions == 1..MaxRoster

\* UPDATE students SET admission_no, class_id, ... WHERE id = id: class_id is
\* in the SET list, so update_student_fee() runs
update_students(uid, id, admission_no, cid) ==
    LET old == StudentsUpdateTargets(uid, id)
        new == {update_student_fee(
                    [r EXCEPT !.admission_no = admission_no, !.class_id = cid]) :
                r \in old}
    IN  IF \E r \in new : ~students_update_policy(uid, r)
        THEN Stmt("42501", students)
        ELSE IF \E r \in new : ~students_admission_no_school_unique(students \ old, r)
        THEN Stmt("23505", students)
        ELSE IF \E r \in new : ~students_class_fk(r)
        THEN Stmt("23503", students)
        ELSE Stmt("none", (students \ old) \cup new)

\* supabase.from("students").update({admission_no, class_id}).eq("id", id)
UpdateStudent(uid, id, admission_no, cid) ==
    /\ LET upd == update_students(uid, id, admission_no, cid)
       IN  students' = upd.table /\ resp' = Reply(uid, upd)
    /\ UNCHANGED <<fee_structures, payments>>
    /\ UNCHANGED_outside_tenant_tables

\* what fetchStudents() loads from the table: .eq("school_id", schoolId),
\* under the SELECT policy
fetchStudents(uid, table) ==
    {r \in table :
        students_select_policy(uid, r) /\ SqlEq(r.school_id, get_user_school_id(uid))}

UNCHANGED_outside_students_page ==
    UNCHANGED <<notifications, receipt_sequence, now, auth_users, schools,
                admin_profiles, user_roles, fee_structures, payments, billing,
                subscription, location, auth_context>>

\* useEffect(() => { if (schoolId) fetchStudents() }): the page of a tab
\* loads its list
Students_useEffect(uid, tab) ==
    /\ get_user_school_id(uid) # NULL
    /\ students_page' =
           [students_page EXCEPT ![<<uid, tab>>] = fetchStudents(uid, students)]
    /\ resp' = Ok(uid, fetchStudents(uid, students))
    /\ UNCHANGED students
    /\ UNCHANGED_outside_students_page

\* the toast that ends handleSubmit() before any statement is sent: the list
\* of the page against the limit of the loaded subscription
Refused(uid, tab) ==
    /\ subscription[uid] # NoSubscription
    /\ Cardinality(students_page[<<uid, tab>>]) >= subscription[uid].maxStudents

\* handleSubmit(): editingStudent is NULL for a new student; the limit is
\* compared in the page, with the list and the subscription the page holds,
\* and only when the subscription is loaded; after a success the page loads
\* its list again
Students_handleSubmit(uid, tab, editingStudent, id, admission_no, class_id) ==
    /\ LET schoolId == get_user_school_id(uid)
           st == IF editingStudent = NULL
                 THEN insert_into_students(uid, id, schoolId, class_id, admission_no)
                 ELSE update_students(uid, editingStudent, admission_no, class_id)
       IN  IF schoolId = NULL
           THEN /\ resp' = Err(uid, "School ID not found")
                /\ UNCHANGED <<students, students_page>>
           ELSE IF editingStudent = NULL /\ Refused(uid, tab)
           THEN /\ resp' = Err(uid, "Subscription Limit Reached")
                /\ UNCHANGED <<students, students_page>>
           ELSE /\ (editingStudent = NULL /\ st.error = "none") => id # NULL
                /\ students' = st.table
                /\ resp' = Reply(uid, st)
                /\ students_page' =
                       IF st.error = "none"
                       THEN [students_page EXCEPT
                                ![<<uid, tab>>] = fetchStudents(uid, st.table)]
                       ELSE students_page
    /\ UNCHANGED_outside_students_page

-----------------------------------------------------------------------------
(* The limit of the plan: the super admin sets the capacity of a school in *)
(* the manage dialog, the admins add and delete students, through the page *)
(* and through the data API.                                               *)

CapacityLimits == {1}

NextCapacity ==
    \E uid \in SignedUp :
        \/ \E sid \in BillingSchools, maxStudents \in CapacityLimits :
              handleUpdateSchool(uid, sid, "small", "active", maxStudents, TrialDays)
        \/ checkSubscription(uid)
        \/ Students_useEffect(uid, 1)
        \/ \E adm \in RosterAdmissions :
              Students_handleSubmit(uid, 1, NULL, FreshId(students, RosterIds), adm, NULL)
        \/ \E sid \in TenantSchools, adm \in RosterAdmissions :
              insert_students(uid, FreshId(students, RosterIds), sid, NULL, adm)
        \/ \E id \in RosterIds : DeleteStudent(uid, id)

SpecCapacity == InitBilling /\ [][NextCapacity]_vars

\* C14: a step never adds a student to a school that already has max_students
\* students or more: the creation is refused and the table keeps its rows.
C14_CapacityGate ==
    [][\A s \in schools :
          Cardinality({r \in students : r.school_id = s.id}) >= s.max_students
              => \A r \in students' \ students : r.school_id # s.id]_vars

-----------------------------------------------------------------------------
(* Receipt numbers: the two schools, each with one student, record         *)
(* payments without a receipt number; "b", who has no school, tries too.   *)

MaxReceipts == 3

ReceiptIds == 1..MaxReceipts

ReceiptAmounts == {100, 150}

InitReceipts ==
    /\ now = 1
    /\ auth_users = SignedUp
    /\ schools = {NewSchool(u, 1) : u \in SignedUp}
    /\ admin_profiles = {NewProfile(u, SchoolOf(u)) : u \in SignedUp}
    /\ user_roles = {<<u, "admin">> : u \in SignedUp} \cup {<<"sa", "super_admin">>}
    /\ students = {[id |-> SchoolOf(u), school_id |-> SchoolOf(u), class_id |-> NULL,
                    total_fee |-> 0, admission_no |-> 1] : u \in SignedUp}
    /\ fee_structures = {}
    /\ payments = {}
    /\ billing = {}
    /\ notifications = {}
    /\ receipt_sequence = 0
    /\ subscription = [u \in Principals |-> NoSubscription]
    /\ students_page = [t \in Tabs |-> {}]
    /\ location = [u \in Principals |->
                      Location(IF u \in SignedUp THEN "/dashboard" ELSE "/auth", FALSE)]
    /\ auth_context = [u \in Principals |-> AuthState(u \in SignedUp)]
    /\ resp = NoResp

NextReceipts ==
    \/ Tick(MaxNow)
    \/ \E uid \in Principals :
          \/ \E sid \in TenantSchools, student \in TenantSchools :
                /\ receipt_sequence < MaxReceipts
                /\ insert_payments(uid, FreshId(payments, ReceiptIds), sid, student,
                                   100, NULL)
          \/ \E id \in ReceiptIds, amount \in ReceiptAmounts :
                UpdatePaymentAmount(uid, id, amount)

SpecReceipts == InitReceipts /\ [][NextReceipts]_vars

\* C15: in every state the payments of one school made in one year carry the
\* receipt numbers 1 .. N of that year, N being their count, whatever the
\* other schools recorded and whatever inserts were refused.
C15_ReceiptsPerTenantAndYear ==
    \A s \in schools, y \in 0..YearOf(MaxNow) :
        LET made == {p \in payments :
                        p.school_id = s.id /\ p.receipt_number \div SeqWidth = y}
        IN  {p.receipt_number % SeqWidth : p \in made} = 1..Cardinality(made)

-----------------------------------------------------------------------------
(* The fee of a student: the admins set up a class, change its fee, and    *)
(* add and edit students in the form of the students page.                 *)

FeeAmounts == {500, 700}

NextFees ==
    \E uid \in SignedUp :
        \/ \E sid \in TenantSchools, amount \in FeeAmounts :
              InsertFeeStructure(uid, sid, amount)
        \/ \E id \in RowIds, amount \in FeeAmounts : UpdateFeeAmount(uid, id, amount)
        \/ \E cid \in RowIds \cup {NULL} :
              Students_handleSubmit(uid, 1, NULL, TenantRowId(students), 1, cid)
        \/ \E id \in RowIds, cid \in RowIds \cup {NULL} :
              Students_handleSubmit(uid, 1, id, NULL, 1, cid)

SpecFees == InitTenant /\ [][NextFees]_vars

\* C16: a step that leaves the class of a student as it was leaves its
\* total_fee as it was: the fee is the one of the moment the class was
\* assigned, whatever happens to the class or to the student afterwards.
C16_FeeSnapshot ==
    [][\A r \in students : \A q \in students' :
          (q.id = r.id /\ q.class_id = r.class_id) => q.total_fee = r.total_fee]_vars

-----------------------------------------------------------------------------
(* Admission numbers: every principal adds, renumbers, moves and deletes   *)
(* students of the two schools.                                            *)

NextRoster ==
    \E uid \in Principals :
        \/ \E sid \in TenantSchools, adm \in RosterAdmissions :
              insert_students(uid, FreshId(students, RosterIds), sid, NULL, adm)
        \/ \E id \in RosterIds, adm \in RosterAdmissions :
              UpdateStudent(uid, id, adm, NULL)
        \/ \E id \in RosterIds, sid \in TenantSchools : UpdateStudentSchool(uid, id, sid)
        \/ \E id \in RosterIds : DeleteStudent(uid, id)

SpecRoster == InitTenant /\ [][NextRoster]_vars

\* no two students of one school carry the same admission number
NoSharedAdmission ==
    \A r \in students, q \in students :
        (r.school_id = q.school_id /\ r.admission_no = q.admission_no) => r.id = q.id

\* an insert of an admission number the school already has is refused and
\* adds no row; one the school does not have, sent by an admin of the school,
\* adds the row, whatever numbers the other schools use
InsertOutcome ==
    \A uid \in Principals, sid \in TenantSchools, adm \in RosterAdmissions :
        insert_students(uid, FreshId(students, RosterIds), sid, NULL, adm) =>
            IF \E r \in students : r.school_id = sid /\ r.admission_no = adm
            THEN students' = students /\ resp'.error # "none"
            ELSE get_user_school_id(uid) = sid =>
                    /\ resp' = Done(uid)
                    /\ \E r \in students' \ students :
                          /\ r.school_id = sid /\ r.admission_no = adm
                          /\ students' = students \cup {r}

\* C17: admission numbers are unique per school: a second student with the
\* number of another student of the same school is refused and adds no row,
\* the same number under another school is accepted, and in every state no
\* two students share (school_id, admission_no).
C17_AdmissionUniquePerTenant ==
    []NoSharedAdmission /\ [][InsertOutcome]_vars

\* two schools use the same admission number, and the last insert was
\* refused as a duplicate
C17_Witness ==
    /\ resp.error = "23505"
    /\ \E r \in students, q \in students :
          r.school_id # q.school_id /\ r.admission_no = q.admission_no

-----------------------------------------------------------------------------
(* public.notifications under its policies.                                *)

MaxNotifications == 2

NotificationIds == 1..MaxNotifications

\* without the USING of the policy: every row is visible
notifications_select_policy_open(uid, row) ==
    TRUE

\* "Users can read their school notifications": school_id = (SELECT school_id
\* FROM admin_profiles WHERE id = auth.uid())
notifications_select_policy(uid, row) ==
    \E p \in admin_profiles : p.id = uid /\ SqlEq(row.school_id, p.school_id)

\* "Super admins can insert notifications": EXISTS (SELECT 1 FROM user_roles
\* WHERE user_id = auth.uid() AND role = 'super_admin'); the caller sees its
\* own rows of user_roles
notifications_insert_policy(uid, row) ==
    \E ur \in user_roles : ur[1] = uid /\ ur[2] = "super_admin"

\* "Users can update their school notifications": USING only, so the same
\* expression is the WITH CHECK of the new row
notifications_update_policy(uid, row) ==
    \E p \in admin_profiles : p.id = uid /\ SqlEq(row.school_id, p.school_id)

\* no policy FOR DELETE ON notifications: no row passes
notifications_delete_policy(uid, row) ==
    FALSE

UNCHANGED_outside_notifications ==
    UNCHANGED <<receipt_sequence, now, auth_users, schools, admin_profiles,
                user_roles, students, fee_structures, payments, billing,
                subscription, students_page, location, auth_context>>

\* supabase.from("notifications").select("*")
SelectNotifications(uid) ==
    /\ resp' = Ok(uid, {r \in notifications : notifications_select_policy(uid, r)})
    /\ UNCHANGED notifications
    /\ UNCHANGED_outside_notifications

\* supabase.from("notifications").insert({school_id, title, message})
InsertNotification(uid, sid) ==
    /\ LET row == [id |-> FreshId(notifications, NotificationIds), school_id |-> sid,
                   is_read |-> FALSE]
       IN  IF ~notifications_insert_policy(uid, row)
           THEN resp' = Err(uid, "42501") /\ UNCHANGED notifications
           ELSE IF ~school_fk(row)
           THEN resp' = Err(uid, "23503") /\ UNCHANGED notifications
           ELSE /\ row.id # NULL
                /\ resp' = Done(uid)
                /\ notifications' = notifications \cup {row}
    /\ UNCHANGED_outside_notifications

NotificationsUpdateTargets(uid, id) ==
    {r \in notifications :
        /\ r.id = id
        /\ notifications_select_policy(uid, r)
        /\ notifications_update_policy(uid, r)}

\* supabase.from("notifications").update({is_read: true}).eq("id", id)
UpdateNotificationRead(uid, id) ==
    /\ LET old == NotificationsUpdateTargets(uid, id)
           new == {[r EXCEPT !.is_read = TRUE] : r \in old}
       IN  IF \E r \in new : ~notifications_update_policy(uid, r)
           THEN resp' = Err(uid, "42501") /\ UNCHANGED notifications
           ELSE resp' = Done(uid) /\ notifications' = (notifications \ old) \cup new
    /\ UNCHANGED_outside_notifications

\* supabase.from("notifications").update({school_id}).eq("id", id)
UpdateNotificationSchool(uid, id, sid) ==
    /\ LET old == NotificationsUpdateTargets(uid, id)
           new == {[r EXCEPT !.school_id = sid] : r \in old}
       IN  IF \E r \in new : ~notifications_update_policy(uid, r)
           THEN resp' = Err(uid, "42501") /\ UNCHANGED notifications
           ELSE IF \E r \in new : ~school_fk(r)
           THEN resp' = Err(uid, "23503") /\ UNCHANGED notifications
           ELSE resp' = Done(uid) /\ notifications' = (notifications \ old) \cup new
    /\ UNCHANGED_outside_notifications

\* supabase.from("notifications").delete().eq("id", id)
DeleteNotification(uid, id) ==
    /\ LET old == {r \in notifications :
                      /\ r.id = id
                      /\ notifications_select_policy(uid, r)
                      /\ notifications_delete_policy(uid, r)}
       IN  notifications' = notifications \ old
    /\ resp' = Done(uid)
    /\ UNCHANGED_outside_notifications

NextNotifications ==
    \E uid \in Principals :
        \/ SelectNotifications(uid)
        \/ \E sid \in TenantSchools \cup {NULL} : InsertNotification(uid, sid)
        \/ \E id \in NotificationIds : UpdateNotificationRead(uid, id)
        \/ \E id \in NotificationIds, sid \in TenantSchools :
              UpdateNotificationSchool(uid, id, sid)
        \/ \E id \in NotificationIds : DeleteNotification(uid, id)
        \/ \E sid \in TenantSchools : UpdateProfileSchool(uid, sid)

SpecNotifications == InitTenant /\ [][NextNotifications]_vars

\* the school of the profile of uid is the school of the notification
OwnNotification(uid, row) ==
    \E p \in admin_profiles :
        p.id = uid /\ p.school_id # NULL /\ p.school_id = row.school_id

\* C20: a notification is added only by a principal with the role
\* super_admin; a select returns, and an update changes, only notifications
\* whose school_id is the school of the caller's profile: a principal of
\* another school, or one without a school, neither sees nor changes them.
C20_NotificationAccess ==
    [][\A uid \in Principals :
          /\ \A sid \in TenantSchools \cup {NULL} :
                (InsertNotification(uid, sid) /\ notifications' # notifications)
                    => has_role(uid, "super_admin")
          /\ SelectNotifications(uid) =>
                \A r \in resp'.data : OwnNotification(uid, r)
          /\ \A id \in NotificationIds :
                (/\ \/ UpdateNotificationRead(uid, id)
                    \/ \E sid \in TenantSchools : UpdateNotificationSchool(uid, id, sid)
                    \/ DeleteNotification(uid, id)
                 /\ notifications' # notifications)
                    => \E r \in notifications : r.id = id /\ OwnNotification(uid, r)]_vars

\* the admin of a school read its notifications and got some, but not the
\* one of the other school; one of them is marked read
C20_Witness ==
    /\ resp.by = "a" /\ resp.op = "select" /\ resp.data # {}
    /\ \A r \in resp.data : r \in notifications
    /\ \E r \in notifications : r \notin resp.data /\ r.school_id # NULL
    /\ \E r \in notifications : r.is_read

-----------------------------------------------------------------------------
(* pages/SuperAdminDashboard.tsx: the delete dialog.                       *)

\* "Admins can view own profile or super_admin can view all"
admin_profiles_select_policy(uid, row) ==
    row.id = uid \/ has_role(uid, "super_admin")

\* no policy FOR DELETE ON admin_profiles, billing or schools: no row passes
admin_profiles_delete_policy(uid, row) ==
    FALSE

billing_delete_policy(uid, row) ==
    FALSE

schools_delete_policy(uid, row) ==
    FALSE

\* school_id REFERENCES schools(id) ON DELETE CASCADE, on every table with
\* the column
school_cascade(table, gone) ==
    {r \in table : r.school_id \notin gone}

\* handleDeleteSchool(): seven deletes one after the other, the responses of
\* the first six unread (school_settings is no table of the model); a delete
\* that reaches no row answers without an error, so the toast is the success
handleDeleteSchool(uid, school_id) ==
    /\ LET pay_gone == {r \in payments :
                           /\ SqlEq(r.school_id, school_id)
                           /\ payments_select_policy(uid, r)
                           /\ payments_delete_policy(uid, r)}
           st_gone == {r \in students :
                          /\ SqlEq(r.school_id, school_id)
                          /\ students_select_policy(uid, r)
                          /\ students_delete_policy(uid, r)}
           fee_gone == {r \in fee_structures :
                           /\ SqlEq(r.school_id, school_id)
                           /\ fee_structures_select_policy(uid, r)
                           /\ fee_structures_delete_policy(uid, r)}
           bill_gone == {r \in billing :
                            /\ SqlEq(r.school_id, school_id)
                            /\ billing_select_policy(uid, r)
                            /\ billing_delete_policy(uid, r)}
           prof_gone == {r \in admin_profiles :
                            /\ SqlEq(r.school_id, school_id)
                            /\ admin_profiles_select_policy(uid, r)
                            /\ admin_profiles_delete_policy(uid, r)}
           school_gone == {r \in schools :
                              /\ r.id = school_id
                              /\ schools_select_policy(uid, r)
                              /\ schools_delete_policy(uid, r)}
           gone == Ids(school_gone)
       IN  /\ payments' = school_cascade(
                              payments_cascade(payments \ pay_gone, Ids(st_gone)), gone)
           /\ students' = school_cascade(
                              class_set_null(students \ st_gone, Ids(fee_gone)), gone)
           /\ fee_structures' = school_cascade(fee_structures \ fee_gone, gone)
           /\ billing' = school_cascade(billing \ bill_gone, gone)
           /\ admin_profiles' = school_cascade(admin_profiles \ prof_gone, gone)
           /\ notifications' = school_cascade(notifications, gone)
           /\ schools' = schools \ school_gone
    /\ resp' = Done(uid)
    /\ UNCHANGED <<receipt_sequence, now, auth_users, user_roles, subscription, students_page, location, auth_context>>

-----------------------------------------------------------------------------
(* Deleting a school: the two schools fill their tables, the super admin   *)
(* notifies them, and the delete dialog is confirmed.                      *)

NextDeletion ==
    \E uid \in SignedUp :
        \/ \E sid \in TenantSchools : InsertStudent(uid, sid, NULL)
        \/ \E sid \in TenantSchools, amount \in TenantFees :
              InsertFeeStructure(uid, sid, amount)
        \/ \E sid \in TenantSchools, st \in RowIds, amount \in TenantAmounts :
              InsertPayment(uid, sid, st, amount)
        \/ \E sid \in TenantSchools : InsertBilling(uid, sid, "monthly", "manual", "pending")
        \/ \E sid \in TenantSchools : InsertNotification(uid, sid)
        \/ \E sid \in TenantSchools : handleDeleteSchool(uid, sid)

SpecDeletion == InitTenant /\ [][NextDeletion]_vars

\* C18: when a super_admin confirms the delete dialog for a school and the
\* dialog reports success, the school row is gone and so is every student,
\* fee structure, payment, billing row, notification and profile of the school.
C18_DeleteSchoolRemovesAll ==
    [][\A uid \in Principals, T \in TenantSchools :
          (/\ has_role(uid, "super_admin")
           /\ handleDeleteSchool(uid, T)
           /\ resp' = Done(uid)) =>
              /\ \A r \in schools' : r.id # T
              /\ \A r \in students' \cup fee_structures' \cup payments' : r.school_id # T
              /\ \A r \in billing' \cup notifications' \cup admin_profiles' :
                    r.school_id # T]_vars

-----------------------------------------------------------------------------
(* Renewal.                                                                *)

\* C21: when a super_admin approves a pending request of a school that is
\* already active, the school stays active, its next_payment_date becomes the
\* day of the approval plus the duration of the plan (not the old date plus
\* the duration) and its last_payment_date the day of the approval.
C21_RenewalRestartsWindow ==
    [][\A uid \in Principals, b \in billing, s \in schools :
          (/\ has_role(uid, "super_admin")
           /\ b.status = "pending"
           /\ s.id = b.school_id
           /\ s.subscription_status = "active"
           /\ approveSubscription(uid, b.id, b.school_id, b.plan_type)) =>
              \E t \in schools' :
                  /\ t.id = s.id
                  /\ t.subscription_status = "active"
                  /\ t.next_payment_date = addDays(now, planDuration(b.plan_type))
                  /\ t.last_payment_date = now]_vars


\* C22: the two writes of an approval happen together or not at all: a step
\* that turns a billing row 'approved' also leaves the school of the row
\* activated by that approval (active, paid on the day of the step).
C22_ApprovalAtomic ==
    [][\A b \in billing, c \in billing' :
          (c.id = b.id /\ b.status # "approved" /\ c.status = "approved") =>
              \E t \in schools' :
                  /\ t.id = c.school_id
                  /\ t.subscription_status = "active"
                  /\ t.last_payment_date = now]_vars

-----------------------------------------------------------------------------
(* Reviewing requests from a list fetched earlier: the admins file         *)
(* requests, and the dashboards approve and reject the rows of their list. *)

\* the requests a list fetched earlier may hold: every row was 'pending'
\* when it was filed, whatever another session made of it since
FetchedRequests(uid) ==
    {r \in billing : billing_select_policy(uid, r)}

NextReview ==
    \/ Tick(MaxNow)
    \/ \E uid \in SignedUp :
          \/ \E sid \in BillingSchools, plan \in BillingPeriods :
                InsertBilling(uid, sid, plan, "manual", "pending")
          \/ \E r \in FetchedRequests(uid) :
                approveSubscription(uid, r.id, r.school_id, r.plan_type)
          \/ \E r \in FetchedRequests(uid) : rejectSubscription(uid, r.id)

SpecReview == InitBilling /\ [][NextReview]_vars

\* C23: approving a billing row that is already 'rejected' or 'approved' is
\* refused with an error and changes neither the billing rows nor the schools.
C23_OnlyPendingApproved ==
    [][\A uid \in Principals, b \in billing :
          (/\ b.status \in {"rejected", "approved"}
           /\ approveSubscription(uid, b.id, b.school_id, b.plan_type)) =>
              /\ UNCHANGED <<billing, schools>>
              /\ resp'.error # "none"]_vars

-----------------------------------------------------------------------------
(* Two open Students pages of one user: each holds the list it fetched;   *)
(* the super admin sets the student limit and the hook loads it.          *)

NextTabs ==
    \E uid \in SignedUp :
        \/ \E sid \in BillingSchools, maxStudents \in CapacityLimits :
              handleUpdateSchool(uid, sid, "small", "active", maxStudents, TrialDays)
        \/ checkSubscription(uid)
        \/ \E tab \in {1, 2} : Students_useEffect(uid, tab)
        \/ \E tab \in {1, 2}, adm \in RosterAdmissions :
              Students_handleSubmit(uid, tab, NULL, FreshId(students, RosterIds), adm, NULL)
        \/ \E id \in RosterIds : DeleteStudent(uid, id)

SpecTabs == InitBilling /\ [][NextTabs]_vars

\* the subscription a page holds carries the limit the school has now
LimitLoaded(uid) ==
    /\ subscription[uid] # NoSubscription
    /\ \E s \in schools :
          s.id = get_user_school_id(uid) /\ s.max_students = subscription[uid].maxStudents

\* C24: a creation sent from a page that holds the current limit never takes
\* the students of the school above max_students, whichever way the
\* creations of the open pages interleave.
C24_NoCapacityOvershoot ==
    [][\A uid \in Principals, tab \in {1, 2}, adm \in RosterAdmissions :
          (/\ LimitLoaded(uid)
           /\ Students_handleSubmit(uid, tab, NULL, FreshId(students, RosterIds), adm, NULL))
              => \A s \in schools' :
                    Cardinality({r \in students' : r.school_id = s.id}) > s.max_students
                        => students' = students]_vars

-----------------------------------------------------------------------------
(* Deactivation: schools are on trial, activated, or already expired, and *)
(* have payment requests on file, when a dashboard deactivates them.      *)

NextDeactivation ==
    \/ Tick(MaxNow)
    \/ \E uid \in SignedUp :
          \/ \E sid \in BillingSchools, plan \in BillingPeriods :
                InsertBilling(uid, sid, plan, "manual", "pending")
          \/ \E sid \in BillingSchools, month \in BillingMonths :
                handleActivateSchool(uid, sid, month)
          \/ \E sid \in BillingSchools : deactivateSubscription(uid, sid)
          \/ \E sid \in BillingSchools : handleDeactivateSchool(uid, sid)

SpecDeactivation == InitBilling /\ [][NextDeactivation]_vars

\* C25: a deactivation by a super admin, from either dashboard and whatever
\* the status of the school was, leaves the school 'expired' with
\* next_payment_date NULL, keeps every other column of the school and every
\* other school, and leaves billing as it was.
C25_Deactivation ==
    [][\A uid \in Principals, s \in schools :
          (/\ has_role(uid, "super_admin")
           /\ deactivateSubscription(uid, s.id) \/ handleDeactivateSchool(uid, s.id)) =>
              /\ schools' = (schools \ {s}) \cup
                     {[s EXCEPT !.subscription_status = "expired",
                                !.next_payment_date = NULL]}
              /\ billing' = billing
              /\ resp'.error = "none"]_vars

\* a school that was active (last_payment_date set by the activation) has
\* been deactivated by a super admin, and its billing row remains
C25_Witness ==
    \E s \in schools, b \in billing :
        /\ s.subscription_status = "expired"
        /\ s.next_payment_date = NULL
        /\ s.last_payment_date # NULL
        /\ b.school_id = s.id
        /\ has_role(resp.by, "super_admin") /\ resp.error = "none"

-----------------------------------------------------------------------------
(* Routing: the admins follow the links of the layout while the super     *)
(* admin deactivates the school of "a" and the days of the trials pass.   *)

\* the data pages of the navigation of MainLayout, and the billing page
DataPaths ==
    {"/dashboard", "/students", "/fee-structure", "/payments", "/reports", "/settings"}

\* the paths routed inside <Route element={<MainLayout />}>
LayoutPaths ==
    {"/dashboard", "/admin-dashboard", "/students", "/fee-structure", "/payments",
     "/reports", "/settings", "/billing", "/contact"}

\* <Link to={item.href}> of the layout: the effect of useSubscription
\* depends on location.pathname and is due when the path changes
Link(uid, href) ==
    /\ location[uid].pathname \in LayoutPaths
    /\ location' = [location EXCEPT ![uid] = Location(href, href # location[uid].pathname)]
    /\ UNCHANGED <<notifications, receipt_sequence, now, auth_users, schools,
                   admin_profiles, user_roles, students, fee_structures, payments,
                   billing, subscription, students_page, auth_context, resp>>

\* useEffect(() => { ...; checkSubscription() }, [user, navigate, location.pathname])
useSubscription_useEffect(uid) ==
    /\ location[uid].due
    /\ checkSubscription(uid)

NextRoutes ==
    \/ Tick(ClockEnd)
    \/ \E uid \in SignedUp :
          \/ \E href \in {"/dashboard", "/students", "/billing"} : Link(uid, href)
          \/ useSubscription_useEffect(uid)
          \/ \E sid \in BillingSchools : handleDeactivateSchool(uid, sid)

\* an effect that is due runs: React runs the effects of a committed render
SpecRoutes ==
    /\ InitBilling
    /\ [][NextRoutes]_vars
    /\ \A uid \in SignedUp : WF_vars(useSubscription_useEffect(uid))

\* the school of uid is expired by its stored status or by the clock
ExpiredTenant(uid) ==
    \E s \in schools :
        s.id = get_user_school_id(uid) /\ StatusByClock(s, now) = "expired"

\* C26: whenever the school of a signed-in admin is expired, by its stored
\* status or by a passed trial_end or next_payment_date, and the admin is on
\* a data page, the admin is eventually on /billing (or the school is no
\* longer expired).
C26_ExpiredConfinedToBilling ==
    \A uid \in SignedUp :
        (ExpiredTenant(uid) /\ location[uid].pathname \in DataPaths)
            ~> (location[uid].pathname = "/billing" \/ ~ExpiredTenant(uid))

-----------------------------------------------------------------------------
(* The tenant binding (SpecTenant).                                        *)

\* C27: no step changes the school_id of the admin_profiles row of a
\* principal that is not super_admin: get_user_school_id() returns for it the
\* same school in every state.
C27_TenantBindingFixed ==
    [][\A p \in admin_profiles :
          ~has_role(p.id, "super_admin") =>
              \E q \in admin_profiles' : q.id = p.id /\ q.school_id = p.school_id]_vars


\* C28: a payment that a caller who is not super_admin adds carries the
\* school_id of the student it references.
C28_PaymentsInsideTenant ==
    [][\A p \in payments' \ payments :
          ~has_role(resp'.by, "super_admin") =>
              \A st \in students : st.id = p.student_id => st.school_id = p.school_id]_vars


\* C29: a students row that a caller who is not super_admin adds or changes
\* has no class, or the class is a fee structure of the student's school.
C29_ClassInsideTenant ==
    [][\A r \in students' \ students :
          ~has_role(resp'.by, "super_admin") =>
              \/ r.class_id = NULL
              \/ \A f \in fee_structures' : f.id = r.class_id => f.school_id = r.school_id]_vars

-----------------------------------------------------------------------------
(* contexts/AuthContext.tsx: the onAuthStateChange listener, the handler  *)
(* it defers with setTimeout, and the guard of MainLayout.                *)

UNCHANGED_outside_auth ==
    UNCHANGED <<notifications, receipt_sequence, now, auth_users, schools,
                admin_profiles, user_roles, students, fee_structures, payments,
                billing, subscription, students_page, resp>>

\* the state of AuthProvider once the deferred handler has returned
Settled(ctx, needsOnboarding) ==
    [session |-> ctx.session, needsOnboarding |-> needsOnboarding, pc |-> "none",
     super_admin |-> FALSE, school_id |-> NULL, needsOnboard |-> FALSE]

\* the listener on SIGNED_IN: setSession, setUser, setTimeout(handler, 0)
onAuthStateChange_SIGNED_IN(uid) ==
    /\ uid \in auth_users
    /\ ~auth_context[uid].session
    /\ auth_context[uid].pc = "none"
    /\ auth_context' = [auth_context EXCEPT ![uid].session = TRUE, ![uid].pc = "timer"]
    /\ UNCHANGED location
    /\ UNCHANGED_outside_auth

\* the listener on SIGNED_OUT: setSession(null), setUser(null),
\* setNeedsOnboarding(false), navigate('/auth'); a deferred handler in
\* flight is left as it is
onAuthStateChange_SIGNED_OUT(uid) ==
    /\ auth_context[uid].session
    /\ auth_context' = [auth_context EXCEPT ![uid].session = FALSE,
                                            ![uid].needsOnboarding = FALSE]
    /\ location' = [location EXCEPT ![uid] = Location("/auth", FALSE)]
    /\ UNCHANGED_outside_auth

\* the timer fires: the handler reads the path, then awaits the select on
\* user_roles, sent with the token the client holds now ("Users can view own
\* roles": user_id = auth.uid())
deferred_timer(uid) ==
    /\ auth_context[uid].pc = "timer"
    /\ auth_context' =
           IF location[uid].pathname = "/superadmin"
           THEN [auth_context EXCEPT ![uid] = Settled(@, @.needsOnboarding)]
           ELSE [auth_context EXCEPT
                    ![uid].pc = "role",
                    ![uid].super_admin =
                        auth_context[uid].session /\ has_role(uid, "super_admin")]
    /\ UNCHANGED location
    /\ UNCHANGED_outside_auth

\* after the role: a super admin returns; anyone else enters
\* checkOnboardingStatus() and awaits the select on admin_profiles
deferred_role(uid) ==
    /\ auth_context[uid].pc = "role"
    /\ auth_context' =
           IF auth_context[uid].super_admin
           THEN [auth_context EXCEPT ![uid] = Settled(@, @.needsOnboarding)]
           ELSE [auth_context EXCEPT
                    ![uid].pc = "profile",
                    ![uid].school_id =
                        IF /\ auth_context[uid].session
                           /\ \E p \in admin_profiles :
                                 p.id = uid /\ admin_profiles_select_policy(uid, p)
                        THEN get_user_school_id(uid)
                        ELSE NULL]
    /\ UNCHANGED location
    /\ UNCHANGED_outside_auth

\* after the profile: without a school_id checkOnboardingStatus() returns
\* true and the handler ends with setNeedsOnboarding(true) and
\* navigate('/onboarding'); with one it awaits the select on schools, and
\* default_name tells whether the school is still named "My School"
deferred_profile(uid, default_name) ==
    /\ auth_context[uid].pc = "profile"
    /\ IF auth_context[uid].school_id = NULL
       THEN /\ auth_context' = [auth_context EXCEPT ![uid] = Settled(@, TRUE)]
            /\ location' = [location EXCEPT ![uid] = Location("/onboarding", FALSE)]
       ELSE /\ auth_context' =
                   [auth_context EXCEPT
                       ![uid].pc = "school",
                       ![uid].needsOnboard =
                           /\ auth_context[uid].session
                           /\ \E r \in schools :
                                 /\ r.id = auth_context[uid].school_id
                                 /\ schools_select_policy(uid, r)
                           /\ default_name]
            /\ UNCHANGED location
    /\ UNCHANGED_outside_auth

\* after the school: setNeedsOnboarding(needsOnboard), then
\* navigate('/onboarding') or navigate('/dashboard')
deferred_school(uid) ==
    /\ auth_context[uid].pc = "school"
    /\ auth_context' = [auth_context EXCEPT ![uid] = Settled(@, @.needsOnboard)]
    /\ LET to == IF auth_context[uid].needsOnboard THEN "/onboarding" ELSE "/dashboard"
       IN  location' = [location EXCEPT
                               ![uid] = Location(to, to = "/dashboard" /\ @.pathname # to)]
    /\ UNCHANGED_outside_auth

\* MainLayout: if (!user) return <Navigate to="/auth" replace />
MainLayout_Navigate(uid) ==
    /\ ~auth_context[uid].session
    /\ location[uid].pathname \in LayoutPaths
    /\ location' = [location EXCEPT ![uid] = Location("/auth", FALSE)]
    /\ UNCHANGED auth_context
    /\ UNCHANGED_outside_auth

NextAuth ==
    \E uid \in SignedUp :
        \/ onAuthStateChange_SIGNED_IN(uid)
        \/ onAuthStateChange_SIGNED_OUT(uid)
        \/ deferred_timer(uid)
        \/ deferred_role(uid)
        \/ \E default_name \in BOOLEAN : deferred_profile(uid, default_name)
        \/ deferred_school(uid)
        \/ MainLayout_Navigate(uid)
        \/ \E href \in {"/dashboard", "/students"} : Link(uid, href)

SpecAuth == InitBilling /\ [][NextAuth]_vars

\* no callback of the browser of uid is left to run
Quiet(uid) ==
    /\ auth_context[uid].pc = "none"
    /\ location[uid].pathname \notin LayoutPaths

\* C30: a browser that is signed out, with its deferred SIGNED_IN handler
\* and the guard of MainLayout finished, shows /auth and has
\* needsOnboarding false.
C30_SignOutWins ==
    \A uid \in SignedUp :
        (~auth_context[uid].session /\ Quiet(uid)) =>
            location[uid].pathname = "/auth" /\ ~auth_context[uid].needsOnboarding

=============================================================================
